---- MODULE Spec2Model ----
(***************************************************************************)
(* State-machine model of the OCR viewer component (OcrPageTextViewer,     *)
(* the Phase 3 drop-in): its React state, the async batch loop of          *)
(* runOcrForAll with its two suspension points per file (await fetch,      *)
(* await res.json()/res.text()), and the navigation handlers, each gated   *)
(* by what the render offers (disabled buttons, lists rendered from        *)
(* results).                                                               *)
(*                                                                         *)
(* JavaScript values are tagged records: [t |-> "null"] for null/undefined,*)
(* [t |-> "str", v |-> s] for strings, [t |-> "obj", ...] for objects.     *)
(* Formatted strings are sequences of their parts, in order.               *)
(***************************************************************************)
EXTENDS Integers, Sequences, FiniteSets, TLC

VARIABLES
  files,        \* useState([])          picked File list (names)
  results,      \* useState([])          [{filename, response, error}]
  activeIndex,  \* useState(0)           0-based index into results
  activePage,   \* useState(1)
  viewMode,     \* useState("markdown")
  running,      \* useState(false)
  pc,           \* position of the running runOcrForAll call
  runFiles,     \* the `files` array the running call closed over
  next,         \* const next = []       outcomes pushed so far
  inflight,     \* positions in runFiles whose fetch promise is unsettled
  cur,          \* const res             the Response being read
  documentType, \* useState("generic")
  zeroRetention,\* useState(true)
  runParams,    \* documentType, zeroRetention as the running call closed over
  sent,         \* the form data of the submissions the call has issued
  call,         \* a render helper applied on its own: its arguments
  ret,          \* ... and what it returned
  appFiles,     \* App: const [files, setFiles]
  batchResult,  \* App: const [batchResult, setBatchResult]
  activeIdx,    \* App: const [activeIdx, setActiveIdx]
  loading,      \* App: const [loading, setLoading]
  appError,     \* App: const [error, setError]
  isReading,    \* App: const [isReading, setIsReading]
  upFiles,      \* App: the files of the upload awaited by handleUpload
  speaking,     \* window.speechSynthesis is playing an utterance
  cancelled     \* who cancelled the utterances whose end/error event is due

\* The arguments and result of a render helper applied on its own.
helperVars == <<call, ret>>

\* The state of App and of the speech engine it drives.
appVars == <<appFiles, batchResult, activeIdx, loading, appError, isReading,
             upFiles, speaking, cancelled>>

\* The request parameters the header lets the user set.
paramVars == <<documentType, zeroRetention>>

\* The request of the running call, and what it has submitted of it.
requestVars == <<runParams, sent>>

\* Everything the handlers of the viewer leave alone.
otherVars == <<helperVars, appVars, paramVars>>

\* The state of the viewer component.
viewerVars == <<files, results, activeIndex, activePage, viewMode, running,
                pc, runFiles, next, inflight, cur, paramVars, requestVars>>

vars == <<files, results, activeIndex, activePage, viewMode, running,
          pc, runFiles, next, inflight, cur, requestVars, otherVars>>

\* Largest number of files one pick of the file input delivers.
MaxFiles == 2

FileNames == {"a.pdf", "b.png"}

----------------------------------------------------------------------------
\* JavaScript values

JNull == [t |-> "null"]

JStr(s) == [t |-> "str", v |-> s]

\* JavaScript truthiness of a modelled value: null/undefined and "" are falsy.
Truthy(v) == \/ v.t = "obj"
             \/ (v.t = "str" /\ v.v # "")

\* a || b
OrElse(a, b) == IF Truthy(a) THEN a ELSE b

\* A parsed JSON object body; fields that are absent are JNull (undefined).
JObj(detail, message, pages, document) ==
  [t |-> "obj", detail |-> detail, message |-> message,
   pages |-> pages, document |-> document]

\* obj?.field for the fields the viewer reads
Detail(b)   == IF b.t = "obj" THEN b.detail ELSE JNull
Message(b)  == IF b.t = "obj" THEN b.message ELSE JNull
Document(b) == IF b.t = "obj" THEN b.document ELSE JNull
Markdown(d) == IF d.t = "obj" THEN d.markdown ELSE JNull

\* An entry of response.pages. engine_usage and diagnostics are objects,
\* modelled by their sets of keys (absent: no keys).
PageMeta(n, txt, norm, usage, diag) ==
  [page_number |-> n, text |-> txt, text_normalized |-> norm,
   engine_usage |-> usage, diagnostics |-> diag]

Page(n, txt) == PageMeta(n, txt, "", {}, {})

\* An entry of response.document.pages.
DocPage(n, txt, blocks) == [page_number |-> n, text |-> txt, blocks |-> blocks]

\* An entry of response.document.tables.
Table(n, nRows, nCols, cells) ==
  [page_number |-> n, n_rows |-> nRows, n_cols |-> nCols, cells |-> cells]

Cell(r, c, txt) == [row |-> r, col |-> c, text |-> txt]

\* response.document
DocModelFull(md, dpages, tables, diag) ==
  [t |-> "obj", markdown |-> JStr(md), pages |-> dpages, tables |-> tables,
   diagnostics |-> diag]

DocModel(md, tables) == DocModelFull(md, <<>>, tables, {})

\* Success payloads of the backend (both schema variants).
PFlat     == JObj(JNull, JNull, <<Page(1, "one"), Page(2, "two")>>, JNull)
PRich     == JObj(JNull, JNull, <<Page(1, "one")>>, DocModel("# md", <<>>))
PRichNoMd == JObj(JNull, JNull, <<Page(1, "one")>>, DocModel("", <<>>))

\* Error payloads of the backend.
BDetail  == JObj(JStr("bad format"), JStr("msg"), <<>>, JNull)
BMessage == JObj(JStr(""), JStr("msg"), <<>>, JNull)
BEmpty   == JObj(JNull, JNull, <<>>, JNull)

----------------------------------------------------------------------------
\* The network boundary: what fetch() and the body readers can deliver

\* A Response as runOcrForAll reads it: res.ok, res.status, res.statusText and
\* whether the content-type header includes "application/json".
Res(ok, status, statusText, ctJson) ==
  [ok |-> ok, status |-> status, statusText |-> statusText, ctJson |-> ctJson]

NoRes == Res(FALSE, 0, "", FALSE)

Responses ==
  { Res(TRUE, 200, "OK", j) : j \in BOOLEAN } \cup
  { Res(FALSE, 500, "Internal Server Error", j) : j \in BOOLEAN }

\* Values res.json() can resolve to for a response.
JsonBodies(res) == IF res.ok THEN {PFlat, PRich, PRichNoMd, JNull}
                             ELSE {BDetail, BMessage, BEmpty, JStr("oops")}

\* Values res.text() can resolve to.
Texts(res) == IF res.ok THEN {"done"} ELSE {"", "plain"}

\* `${n}` for the status codes in use
NumToStr(n) == CASE n = 200 -> "200"
                 [] n = 500 -> "500"
                 [] OTHER   -> "0"

\* e.message of the exceptions the try block can see
FetchFailed == "Failed to fetch"
ParseFailed == "Unexpected token"

----------------------------------------------------------------------------
\* runOcrForAll: outcome construction

Outcome(filename, response, error) ==
  [filename |-> filename, response |-> response, error |-> error]

\* `${res.status} ${res.statusText}`
StatusLine(res) == <<NumToStr(res.status), res.statusText>>

\* The parts of a string value, as it is interpolated into a template.
Parts(v) == IF v.t = "str" THEN <<v.v>> ELSE <<>>

\* body?.detail || body?.message || (typeof body === "string" ? body : "")
\*   || text || `${res.status} ${res.statusText}`
ErrorDetail(res, body, text) ==
  LET d == Detail(body)
      m == Message(body)
      s == IF body.t = "str" THEN body ELSE JStr("")
      t == JStr(text)
  IN  IF Truthy(d) THEN Parts(d)
      ELSE IF Truthy(m) THEN Parts(m)
      ELSE IF Truthy(s) THEN Parts(s)
      ELSE IF Truthy(t) THEN Parts(t)
      ELSE StatusLine(res)

\* `OCR failed: ${res.status} ${res.statusText} — ${detail}`
HttpErrorText(res, body, text) ==
  <<"OCR failed:">> \o StatusLine(res) \o <<"-">> \o ErrorDetail(res, body, text)

\* `OCR failed: ${String(e?.message || e)}`
ThrownErrorText(msg) == <<"OCR failed:", msg>>

NoError == <<>>

\* The branch on res.ok after the body has been read.
SettledOutcome(f, res, body, text) ==
  IF ~res.ok
    THEN Outcome(f, JNull, HttpErrorText(res, body, text))
    ELSE Outcome(f, body, NoError)

\* The catch block.
CaughtOutcome(f, msg) == Outcome(f, JNull, ThrownErrorText(msg))

\* A default that looks for markdown in any outcome, not only the first
\* successful one.
DefaultViewModeAny(nx) ==
  IF \E i \in 1..Len(nx) : Truthy(Markdown(Document(nx[i].response)))
    THEN "markdown" ELSE "page"

\* const firstOk = next.find((x) => x.response);
\* firstOk?.response?.document?.markdown ? "markdown" : "page"
DefaultViewMode(nx) ==
  LET oks == { i \in 1..Len(nx) : Truthy(nx[i].response) }
  IN  IF oks = {} THEN "page"
      ELSE LET first == CHOOSE i \in oks : \A j \in oks : i <= j
           IN  IF Truthy(Markdown(Document(nx[first].response)))
                 THEN "markdown" ELSE "page"

----------------------------------------------------------------------------
\* Values derived on every render

\* results[activeIndex]  (activeIndex is 0-based)
ActiveItem == IF activeIndex + 1 \in DOMAIN results
                THEN results[activeIndex + 1]
                ELSE Outcome("", JNull, NoError)

\* const active = results[activeIndex]?.response || null;
active == OrElse(ActiveItem.response, JNull)

\* An activeErr that never holds an error.
activeErrNever == NoError

\* const activeErr = results[activeIndex]?.error || null;
activeErr == ActiveItem.error

\* const pages = active?.pages (an array, else [])
pages == IF active.t = "obj" THEN active.pages ELSE <<>>

\* const maxPages = pages.length || 1;
maxPages == IF Len(pages) # 0 THEN Len(pages) ELSE 1

docModel == OrElse(Document(active), JNull)

hasDocument == Truthy(Document(active))
hasMarkdown == Truthy(Markdown(Document(active)))
hasTables   == docModel.t = "obj" /\ Len(docModel.tables) > 0
hasPageMeta == Len(pages) # 0

ViewModes == {"markdown", "blocks", "tables", "page", "diagnostics", "raw"}

\* Tabs that are all enabled once an outcome with a response is active.
TabEnabledWhenActive(m) == Truthy(active)

\* The `disabled` attribute of each tab button of renderTabs, negated.
TabEnabled(m) ==
  CASE m = "page"        -> Truthy(active)
    [] m = "diagnostics" -> Truthy(active) /\ hasPageMeta
    [] m = "raw"         -> Truthy(active)
    [] m = "markdown"    -> Truthy(active) /\ hasMarkdown
    [] m = "blocks"      -> Truthy(active) /\ hasDocument
    [] m = "tables"      -> Truthy(active) /\ hasTables

Min(a, b) == IF a < b THEN a ELSE b
Max(a, b) == IF a > b THEN a ELSE b

\* undefined, as a page lookup would return it
Undefined == [t |-> "undefined"]

\* ps.find((p) => p.page_number === n): the first match, scanning from i.
RECURSIVE FindFrom(_, _, _)
FindFrom(ps, n, i) ==
  IF i > Len(ps) THEN Undefined
  ELSE IF ps[i].page_number = n THEN [t |-> "page", v |-> ps[i]]
  ELSE FindFrom(ps, n, i + 1)

\* The lookup without its "|| pages[0]".
FindPageNoFallback(ps, n) == FindFrom(ps, n, 1)

\* pages.find((p) => p.page_number === activePage) || pages[0]
FindPage(ps, n) ==
  IF FindFrom(ps, n, 1) # Undefined THEN FindFrom(ps, n, 1)
  ELSE IF Len(ps) > 0 THEN [t |-> "page", v |-> ps[1]]
  ELSE Undefined

\* The length Array.from({ length: n }) gives its result: none below zero.
ToLength(n) == IF n < 0 THEN 0 ELSE n

\* Array.from({ length: nRows }, () => Array.from({ length: nCols }, () => ""))
BlankGrid(nRows, nCols) ==
  [r \in 1..ToLength(nRows) |-> [k \in 1..ToLength(nCols) |-> ""]]

\* A loop body that never overwrites a slot already filled.
GridPutKeepsFirst(grid, nRows, nCols, c) ==
  IF c.row >= 0 /\ c.row < nRows /\ c.col >= 0 /\ c.col < nCols
       /\ grid[c.row + 1][c.col + 1] = ""
  THEN [grid EXCEPT ![c.row + 1][c.col + 1] = c.text]
  ELSE grid

\* The loop body: if (r >= 0 && r < nRows && k >= 0 && k < nCols)
\*                  grid[r][k] = String(c?.text || "")
GridPut(grid, nRows, nCols, c) ==
  IF c.row >= 0 /\ c.row < nRows /\ c.col >= 0 /\ c.col < nCols
  THEN [grid EXCEPT ![c.row + 1][c.col + 1] = c.text]
  ELSE grid

\* for (const c of cells) ..., from the i-th cell on.
RECURSIVE FillGrid(_, _, _, _, _)
FillGrid(grid, nRows, nCols, cells, i) ==
  IF i > Len(cells) THEN grid
  ELSE FillGrid(GridPut(grid, nRows, nCols, cells[i]), nRows, nCols, cells,
                i + 1)

InvalidTable == [kind |-> "invalid", text |-> "Invalid table."]

\* renderTableGrid(table): "Invalid table." when a count is falsy (zero),
\* else the grid of cell texts.
RenderTableGrid(table) ==
  IF table.n_rows = 0 \/ table.n_cols = 0 THEN InvalidTable
  ELSE [kind |-> "grid",
        grid |-> FillGrid(BlankGrid(table.n_rows, table.n_cols),
                          table.n_rows, table.n_cols, table.cells, 1)]

----------------------------------------------------------------------------
\* What the component renders for the active outcome.

docMarkdown == IF Truthy(Markdown(docModel)) THEN Markdown(docModel).v ELSE ""
docPages    == IF docModel.t = "obj" THEN docModel.pages ELSE <<>>
docTables   == IF docModel.t = "obj" THEN docModel.tables ELSE <<>>

\* blockView: the blocks of the matching document page, else of the first.
blockView ==
  IF Len(docPages) = 0 THEN <<>>
  ELSE FindPage(docPages, activePage).v.blocks

\* A <div> holding only a fixed message.
Notice(text) == [kind |-> "notice", text |-> text]

\* a || b on strings
StrOr(a, b) == IF a # "" THEN a ELSE b

\* s.trim(): the texts of the model carry no whitespace at their ends other
\* than the text that is only whitespace.
Trim(s) == IF s = " " THEN "" ELSE s

IsOnActivePage(t) == t.page_number = activePage

\* A tables view that shows every table when none is on the active page.
RenderTablesWithFallback ==
  IF ~Truthy(active) THEN [kind |-> "nothing"]
  ELSE IF Len(docTables) = 0 THEN Notice("No tables extracted.")
  ELSE LET onPage == SelectSeq(docTables, IsOnActivePage)
           pageTables == IF Len(onPage) = 0 THEN docTables ELSE onPage
       IN  [kind |-> "tables", tables |-> pageTables,
            grids |-> [i \in DOMAIN pageTables |->
                         RenderTableGrid(pageTables[i])]]

\* renderTables()
RenderTables ==
  IF ~Truthy(active) THEN [kind |-> "nothing"]
  ELSE IF Len(docTables) = 0 THEN Notice("No tables extracted.")
  ELSE LET pageTables == SelectSeq(docTables, IsOnActivePage)
       IN  IF Len(pageTables) = 0
             THEN Notice("No tables extracted on this page.")
             ELSE [kind |-> "tables", tables |-> pageTables,
                   grids |-> [i \in DOMAIN pageTables |->
                                RenderTableGrid(pageTables[i])]]

\* The diagnostics branch of renderActiveView: the three maps of the page
\* looked up (|| {} when there is no page) and of the document.
DiagPage    == FindPage(pages, activePage)
engineUsage == IF DiagPage = Undefined THEN {} ELSE DiagPage.v.engine_usage
diagnostics == IF DiagPage = Undefined THEN {} ELSE DiagPage.v.diagnostics
docDiag     == IF docModel.t = "obj" THEN docModel.diagnostics ELSE {}
hasAny      == engineUsage # {} \/ diagnostics # {} \/ docDiag # {}

\* The page branch of renderActiveView: text_normalized || text || "", trimmed.
PageText ==
  LET page == FindPage(pages, activePage)
  IN  IF page = Undefined THEN ""
      ELSE Trim(StrOr(page.v.text_normalized, page.v.text))

\* renderActiveView()
RenderActiveView ==
  IF activeErr # NoError /\ ~Truthy(active)
    THEN [kind |-> "error", text |-> activeErr]
  ELSE IF ~Truthy(active)
    THEN Notice("Select multiple files (Ctrl/Shift) and click Run OCR.")
  ELSE CASE viewMode = "diagnostics" ->
              IF ~hasAny
                THEN Notice("No diagnostics/engine usage found in the response.")
                ELSE [kind |-> "diagnostics", engineUsage |-> engineUsage,
                      diagnostics |-> diagnostics, docDiag |-> docDiag]
         [] viewMode = "raw" -> [kind |-> "raw", json |-> active]
         [] viewMode = "markdown" ->
              IF docMarkdown = ""
                THEN Notice("No document.markdown available.")
                ELSE [kind |-> "text", text |-> docMarkdown]
         [] viewMode = "tables" ->
              IF docModel = JNull THEN Notice("No document model available.")
              ELSE RenderTables
         [] viewMode = "blocks" ->
              IF docModel = JNull THEN Notice("No document model available.")
              ELSE IF Len(blockView) = 0
                THEN Notice("No blocks found on this page.")
              ELSE [kind |-> "blocks", blocks |-> blockView]
         [] OTHER ->
              IF PageText = "" THEN Notice("No text extracted for this page.")
              ELSE [kind |-> "text", text |-> PageText]

----------------------------------------------------------------------------
\* Initial state: the useState initial values; no call in progress

\* The file lists the file input delivers: up to MaxFiles names, neighbours
\* distinct (so that the order of a list is visible in its names).
Picks ==
  { fs \in UNION { [1..n -> FileNames] : n \in 0..MaxFiles } :
      \A i \in 1..(Len(fs) - 1) : fs[i] # fs[i + 1] }

\* The <option>s of the document type <select>.
DocumentTypes == {"generic", "invoice", "receipt", "resume"}

\* String(zeroRetention)
BoolStr(b) == IF b THEN "true" ELSE "false"

\* The form data of one submission: file, document_type, zero_retention.
FormData(f, p) ==
  [file |-> f, document_type |-> p.document_type,
   zero_retention |-> BoolStr(p.zero_retention)]

\* documentType and zeroRetention as the current render holds them.
ParamsNow == [document_type |-> documentType, zero_retention |-> zeroRetention]

\* A loop that reads the parameters afresh at every iteration.
ParamsSeenLive == ParamsNow

\* documentType and zeroRetention as the loop of the running call sees them:
\* the constants of the render the call was made from.
ParamsSeen == runParams

\* The form data of the submissions issued for positions `issued` of fs, in
\* position order.
FormsFor(issued, fs, p) ==
  [i \in 1..Cardinality(issued) |->
     FormData(fs[CHOOSE k \in issued :
                   Cardinality({j \in issued : j < k}) = i - 1], p)]

\* No helper is applied on its own.
NoCall == [fn |-> "none"]
NoRet  == [t |-> "none"]

Init ==
  /\ files = <<>>
  /\ results = <<>>
  /\ activeIndex = 0
  /\ activePage = 1
  /\ viewMode = "markdown"
  /\ running = FALSE
  /\ pc = "idle"
  /\ runFiles = <<>>
  /\ next = <<>>
  /\ inflight = {}
  /\ cur = NoRes
  /\ documentType = "generic"
  /\ zeroRetention = TRUE
  /\ runParams = ParamsNow
  /\ sent = FormsFor(DOMAIN runFiles, runFiles, ParamsNow)
  /\ call = NoCall
  /\ ret = NoRet
  /\ appFiles = <<>>
  /\ batchResult = JNull
  /\ activeIdx = 0
  /\ loading = FALSE
  /\ appError = JNull
  /\ isReading = FALSE
  /\ upFiles = <<>>
  /\ speaking = FALSE
  /\ cancelled = {}

----------------------------------------------------------------------------
\* Handlers

\* onFilesChange: setFiles(Array.from(e.target.files || []))
OnFilesChange(fs) ==
  /\ files' = fs
  /\ UNCHANGED <<otherVars, requestVars, results, activeIndex, activePage, viewMode, running,
                 pc, runFiles, next, inflight, cur>>

\* A loop that issues every file's fetch at once (Promise.all over files).
IssueAllAtStart(fs) == 1..Len(fs)

\* Positions whose fetch is issued when the loop is entered: the first
\* iteration runs up to its `await fetch(...)`.
IssueAtStart(fs) == {1}

\* Positions whose fetch is issued once the outcome of position k is pushed:
\* the next iteration, if there is one.
IssueAfter(k, fs) == IF k < Len(fs) THEN {k + 1} ELSE {}

\* The "Run OCR" button is rendered disabled={running || !files.length}.
RunEnabled == ~running /\ Len(files) # 0

\* StartRun without setActiveIndex(0); setActivePage(1).
StartRunKeepsSelection ==
  /\ running' = TRUE
  /\ results' = <<>>
  /\ next' = <<>>
  /\ runFiles' = files
  /\ inflight' = IssueAtStart(files)
  /\ runParams' = ParamsNow
  /\ sent' = FormsFor(IssueAtStart(files), files, ParamsNow)
  /\ pc' = "awaitFetch"
  /\ cur' = NoRes
  /\ UNCHANGED <<otherVars, files, viewMode, activeIndex, activePage>>

\* StartRun without setResults([]).
StartRunKeepsResults ==
  /\ running' = TRUE
  /\ activeIndex' = 0
  /\ activePage' = 1
  /\ next' = <<>>
  /\ runFiles' = files
  /\ inflight' = IssueAtStart(files)
  /\ runParams' = ParamsNow
  /\ sent' = FormsFor(IssueAtStart(files), files, ParamsNow)
  /\ pc' = "awaitFetch"
  /\ cur' = NoRes
  /\ UNCHANGED <<otherVars, files, viewMode, results>>

\* runOcrForAll with files selected, up to the first await: the four state
\* resets, then the first iteration's fetch.
StartRun ==
  /\ running' = TRUE
  /\ results' = <<>>
  /\ activeIndex' = 0
  /\ activePage' = 1
  /\ next' = <<>>
  /\ runFiles' = files
  /\ inflight' = IssueAtStart(files)
  /\ runParams' = ParamsNow
  /\ sent' = FormsFor(IssueAtStart(files), files, ParamsNow)
  /\ pc' = "awaitFetch"
  /\ cur' = NoRes
  /\ UNCHANGED <<otherVars, files, viewMode>>

\* if (!files.length) { setResults([{filename: "", response: null,
\*   error: "No files selected."}]); return; }
NoFilesOutcome == Outcome("", JNull, <<"No files selected.">>)

NoFilesSelected ==
  /\ results' = <<NoFilesOutcome>>
  /\ UNCHANGED <<otherVars, requestVars, files, activeIndex, activePage, viewMode, running,
                 pc, runFiles, next, inflight, cur>>

\* runOcrForAll without its guard on files.length (the loop over no files
\* pushes nothing, and the call runs to its end without suspending).
RunWithoutGuard ==
  IF Len(files) = 0
    THEN /\ results' = <<>>
         /\ activeIndex' = 0
         /\ activePage' = 1
         /\ viewMode' = "page"
         /\ UNCHANGED <<otherVars, requestVars, files, running, pc, runFiles, next, inflight, cur>>
    ELSE StartRun

\* The body of runOcrForAll, up to its first suspension.
RunOcrForAllCall ==
  IF ~(Len(files) # 0) THEN NoFilesSelected ELSE StartRun

\* A "Run OCR" button that stays enabled while a run is in progress.
RunOcrForAllAnyTime ==
  /\ Len(files) # 0
  /\ RunOcrForAllCall

\* Click on "Run OCR".
RunOcrForAll ==
  /\ RunEnabled
  /\ pc = "idle"
  /\ RunOcrForAllCall

\* runOcrForAll called with no call of it in progress, whatever files holds:
\* the button's !files.length gate repeats the function's own guard, and
\* only with the gate set aside is the guard's branch ever taken.
InvokeRunOcrForAll ==
  /\ ~running
  /\ pc = "idle"
  /\ RunOcrForAllCall

\* What follows next.push(o): the next iteration's fetch, or, after the last
\* file, setResults(next); setRunning(false); setViewMode(default).
AfterPush(o) ==
  LET k  == Len(next) + 1
      nx == Append(next, o)
  IN  /\ next' = nx
      /\ cur' = NoRes
      /\ inflight' = (inflight \ {k}) \cup IssueAfter(k, runFiles)
      /\ sent' = sent \o FormsFor(IssueAfter(k, runFiles), runFiles, ParamsSeen)
      /\ UNCHANGED runParams
      /\ IF k < Len(runFiles)
           THEN /\ pc' = "awaitFetch"
                /\ UNCHANGED <<results, running, viewMode>>
           ELSE /\ pc' = "idle"
                /\ results' = nx
                /\ running' = FALSE
                /\ viewMode' = DefaultViewMode(nx)
      /\ UNCHANGED <<otherVars, files, activeIndex, activePage, runFiles>>

\* await fetch(...) rejects (network error): the catch block pushes.
FetchReject ==
  /\ pc = "awaitFetch"
  /\ AfterPush(CaughtOutcome(runFiles[Len(next) + 1], FetchFailed))

\* await fetch(...) resolves; the body read is started.
FetchResolve(res) ==
  /\ pc = "awaitFetch"
  /\ pc' = "awaitBody"
  /\ cur' = res
  /\ UNCHANGED <<otherVars, requestVars, files, results, activeIndex, activePage, viewMode, running,
                 runFiles, next, inflight>>

\* await res.json() resolves.
JsonResolve(body) ==
  /\ pc = "awaitBody"
  /\ cur.ctJson
  /\ AfterPush(SettledOutcome(runFiles[Len(next) + 1], cur, body, ""))

\* await res.text() resolves.
TextResolve(text) ==
  /\ pc = "awaitBody"
  /\ ~cur.ctJson
  /\ AfterPush(SettledOutcome(runFiles[Len(next) + 1], cur, JNull, text))

\* A body read whose rejection nothing catches: the call ends there.
BodyRejectUncaught ==
  /\ pc = "awaitBody"
  /\ pc' = "thrown"
  /\ UNCHANGED <<otherVars, requestVars, files, results, activeIndex,
                 activePage, viewMode, running, runFiles, next, inflight, cur>>

\* await res.json() / res.text() rejects: the catch block pushes.
BodyReject ==
  /\ pc = "awaitBody"
  /\ AfterPush(CaughtOutcome(runFiles[Len(next) + 1], ParseFailed))

\* A file button that only does setActiveIndex(idx).
SelectFileKeepsPage(idx) ==
  /\ activeIndex' = idx
  /\ UNCHANGED <<otherVars, requestVars, files, results, activePage, viewMode, running,
                 pc, runFiles, next, inflight, cur>>

\* A file button that also goes back to the page view.
SelectFileResetsView(idx) ==
  /\ activeIndex' = idx
  /\ activePage' = 1
  /\ viewMode' = "page"
  /\ UNCHANGED <<otherVars, requestVars, files, results, running,
                 pc, runFiles, next, inflight, cur>>

\* A button of renderResultsList: setActiveIndex(idx); setActivePage(1).
SelectFile(idx) ==
  /\ activeIndex' = idx
  /\ activePage' = 1
  /\ UNCHANGED <<otherVars, requestVars, files, results, viewMode, running,
                 pc, runFiles, next, inflight, cur>>

\* renderResultsList renders one button per entry of results.
ClickFile == \E idx \in 0..(Len(results) - 1) : SelectFile(idx)

\* renderPager "Prev": setActivePage((p) => Math.max(1, p - 1)),
\* rendered when active, disabled={activePage <= 1}.
PrevPage ==
  /\ Truthy(active)
  /\ ~(activePage <= 1)
  /\ activePage' = Max(1, activePage - 1)
  /\ UNCHANGED <<otherVars, requestVars, files, results, activeIndex, viewMode, running,
                 pc, runFiles, next, inflight, cur>>

\* A "Next" that neither clamps nor is disabled on the last page.
NextPageNoClamp ==
  /\ Truthy(active)
  /\ ~(activePage > maxPages)
  /\ activePage' = activePage + 1
  /\ UNCHANGED <<otherVars, requestVars, files, results, activeIndex, viewMode, running,
                 pc, runFiles, next, inflight, cur>>

\* renderPager "Next": setActivePage((p) => Math.min(maxPages, p + 1)),
\* rendered when active, disabled={activePage >= maxPages}.
NextPage ==
  /\ Truthy(active)
  /\ ~(activePage >= maxPages)
  /\ activePage' = Min(maxPages, activePage + 1)
  /\ UNCHANGED <<otherVars, requestVars, files, results, activeIndex, viewMode, running,
                 pc, runFiles, next, inflight, cur>>

\* The document type <select>: setDocumentType(e.target.value).
SetDocumentType(d) ==
  /\ documentType' = d
  /\ UNCHANGED <<helperVars, appVars, requestVars, zeroRetention, files,
                 results, activeIndex, activePage, viewMode, running,
                 pc, runFiles, next, inflight, cur>>

\* The zero_retention checkbox: setZeroRetention(e.target.checked).
SetZeroRetention(z) ==
  /\ zeroRetention' = z
  /\ UNCHANGED <<helperVars, appVars, requestVars, documentType, files,
                 results, activeIndex, activePage, viewMode, running,
                 pc, runFiles, next, inflight, cur>>

\* A tab button of renderTabs: setViewMode(m).
SetViewMode(m) ==
  /\ TabEnabled(m)
  /\ viewMode' = m
  /\ UNCHANGED <<otherVars, requestVars, files, results, activeIndex, activePage, running,
                 pc, runFiles, next, inflight, cur>>

Next ==
  \/ \E fs \in Picks : OnFilesChange(fs)
  \/ RunOcrForAll
  \/ FetchReject
  \/ \E res \in Responses : FetchResolve(res)
  \/ \E body \in JsonBodies(cur) : JsonResolve(body)
  \/ \E text \in Texts(cur) : TextResolve(text)
  \/ BodyReject
  \/ ClickFile
  \/ PrevPage
  \/ NextPage
  \/ \E m \in ViewModes : SetViewMode(m)

Spec == Init /\ [][Next]_vars

\* The component with runOcrForAll also callable when no file is selected.
NextGuard == Next \/ InvokeRunOcrForAll

SpecGuard == Init /\ [][NextGuard]_vars

\* The component with the file-selection handler applied to any index, not
\* only to the indices renderResultsList renders a button for.
SelectAny == \E idx \in (0..MaxFiles) \cup {99} : SelectFile(idx)

NextSelect == Next \/ SelectAny

SpecSelect == Init /\ [][NextSelect]_vars

\* The batch runs with the request parameters changing under them; the
\* server answers each submission with pages, or the fetch fails.
NextRequest ==
  \/ \E fs \in Picks : OnFilesChange(fs)
  \/ \E d \in DocumentTypes : SetDocumentType(d)
  \/ \E z \in BOOLEAN : SetZeroRetention(z)
  \/ RunOcrForAll
  \/ FetchReject
  \/ FetchResolve(Res(TRUE, 200, "OK", TRUE))
  \/ JsonResolve(PFlat)

SpecRequest == Init /\ [][NextRequest]_vars

\* The two promises a submission awaits: each settles, one way or the other.
FetchSettles == FetchReject \/ \E res \in Responses : FetchResolve(res)

BodySettles ==
  \/ \E body \in JsonBodies(cur) : JsonResolve(body)
  \/ \E text \in Texts(cur) : TextResolve(text)
  \/ BodyReject

\* The batch runs alone (no navigation), every kind of answer included.
NextRun ==
  \/ \E fs \in Picks : OnFilesChange(fs)
  \/ RunOcrForAll
  \/ FetchSettles
  \/ BodySettles

\* ... with every awaited promise settling in the end.
SpecLive ==
  /\ Init
  /\ [][NextRun]_vars
  /\ WF_vars(FetchSettles)
  /\ WF_vars(BodySettles)

\* The file input handing over any FileList, files of one name (picked from
\* different folders, or dropped together) included: onFilesChange stores it
\* as it comes.
AnyPicks == UNION {[1..n -> FileNames] : n \in 0..MaxFiles}

PickAny == \E fs \in AnyPicks : OnFilesChange(fs)

NextDup == Next \/ PickAny

SpecDup == Init /\ [][NextDup]_vars

----------------------------------------------------------------------------
\* App: the uploader with one batch request per run and read-aloud.

\* A picked file: its name, and which file of that name it is.
AppFile(name, id) == [name |-> name, id |-> id]

\* Two files named a.pdf (from two folders) and one named b.png.
AppFileSet == {AppFile("a.pdf", 1), AppFile("a.pdf", 2), AppFile("b.png", 3)}

AppPicks == UNION {[1..n -> AppFileSet] : n \in 0..MaxFiles}

\* for (const f of picked) if (!map.has(f.name)) map.set(f.name, f);
\* Array.from(map.values()): insertion order, from the i-th picked file on.
RECURSIVE DedupeFrom(_, _, _)
DedupeFrom(picked, kept, i) ==
  IF i > Len(picked) THEN kept
  ELSE IF \E j \in DOMAIN kept : kept[j].name = picked[i].name
    THEN DedupeFrom(picked, kept, i + 1)
    ELSE DedupeFrom(picked, Append(kept, picked[i]), i + 1)

\* The file input's onChange.
AppFilesChange(picked) ==
  /\ appFiles' = DedupeFrom(picked, <<>>, 1)
  /\ UNCHANGED <<batchResult, activeIdx, loading, appError, isReading,
                 upFiles, speaking, cancelled>>
  /\ UNCHANGED <<viewerVars, helperVars>>

\* window.speechSynthesis.cancel() by handler h: playback stops at once, and
\* the utterance cut short gets its end/error event later.
CancelledBy(h) == IF speaking THEN cancelled \cup {h} ELSE cancelled

\* A handleUpload that leaves the speech engine alone.
HandleUploadNoCancel ==
  /\ ~loading
  /\ IF Len(appFiles) = 0
       THEN /\ appError' = JStr("Please choose at least 1 file.")
            /\ UNCHANGED <<batchResult, loading, isReading, upFiles,
                           speaking, cancelled>>
       ELSE /\ appError' = JNull
            /\ loading' = TRUE
            /\ batchResult' = JNull
            /\ isReading' = FALSE
            /\ upFiles' = appFiles
            /\ UNCHANGED <<speaking, cancelled>>
  /\ UNCHANGED <<appFiles, activeIdx>>
  /\ UNCHANGED <<viewerVars, helperVars>>

\* The "Extract Text" button (disabled={loading}): handleUpload up to its
\* await.
HandleUpload ==
  /\ ~loading
  /\ IF Len(appFiles) = 0
       THEN /\ appError' = JStr("Please choose at least 1 file.")
            /\ UNCHANGED <<batchResult, loading, isReading, upFiles,
                           speaking, cancelled>>
       ELSE /\ appError' = JNull
            /\ loading' = TRUE
            /\ batchResult' = JNull
            /\ isReading' = FALSE
            /\ upFiles' = appFiles
            /\ speaking' = FALSE
            /\ cancelled' = CancelledBy("handleUpload")
  /\ UNCHANGED <<appFiles, activeIdx>>
  /\ UNCHANGED <<viewerVars, helperVars>>

\* A response of the batch endpoint for one file, of which App reads
\* full_text.
AppResponse(fullText) == [t |-> "obj", full_text |-> fullText]

AppItems(f) ==
  {[filename |-> f.name, response |-> AppResponse("hello"), error |-> JNull],
   [filename |-> f.name, response |-> AppResponse(""), error |-> JNull],
   [filename |-> f.name, response |-> JNull, error |-> JStr("bad file")]}

\* res.data of uploadDocuments(fs, ...): one item per file sent.
BatchData(fs) ==
  {[t |-> "obj", results |-> rs] :
     rs \in {r \in [1..Len(fs) -> UNION {AppItems(f) : f \in AppFileSet}] :
               \A i \in 1..Len(fs) : r[i] \in AppItems(fs[i])}}

\* await uploadDocuments(...) resolves: the try block, then finally.
UploadResolve(data) ==
  /\ loading
  /\ batchResult' = data
  /\ activeIdx' = 0
  /\ loading' = FALSE
  /\ UNCHANGED <<appFiles, appError, isReading, upFiles, speaking, cancelled>>
  /\ UNCHANGED <<viewerVars, helperVars>>

\* await uploadDocuments(...) rejects: the catch block, then finally.
UploadReject ==
  /\ loading
  /\ appError' = JStr("Network Error")
  /\ loading' = FALSE
  /\ UNCHANGED <<appFiles, batchResult, activeIdx, isReading, upFiles,
                 speaking, cancelled>>
  /\ UNCHANGED <<viewerVars, helperVars>>

\* The "Select file output" <select>, rendered when results is non-empty.
AppSelect(idx) ==
  /\ batchResult # JNull
  /\ idx + 1 \in DOMAIN batchResult.results
  /\ activeIdx' = idx
  /\ UNCHANGED <<appFiles, batchResult, loading, appError, isReading,
                 upFiles, speaking, cancelled>>
  /\ UNCHANGED <<viewerVars, helperVars>>

\* batchResult?.results?.[activeIdx]?.response || null
activeResult ==
  IF batchResult # JNull /\ activeIdx + 1 \in DOMAIN batchResult.results
    THEN batchResult.results[activeIdx + 1].response
    ELSE JNull

\* disabled={!batchResult || !batchResult.results?.[activeIdx]?.response},
\* negated.
ReadEnabled == batchResult # JNull /\ Truthy(activeResult)

\* handleStartReading: nothing without a full_text; else cancel, then speak.
HandleStartReading ==
  IF ~Truthy(activeResult) \/ activeResult.full_text = ""
    THEN UNCHANGED <<isReading, speaking, cancelled>>
    ELSE /\ cancelled' = CancelledBy("handleStartReading")
         /\ isReading' = TRUE
         /\ speaking' = TRUE

\* handleStopReading
HandleStopReading ==
  /\ cancelled' = CancelledBy("handleStopReading")
  /\ speaking' = FALSE
  /\ isReading' = FALSE

\* The read-aloud button: onClick={isReading ? handleStopReading
\*                                        : handleStartReading}
ReadButton ==
  /\ ReadEnabled
  /\ IF isReading THEN HandleStopReading ELSE HandleStartReading
  /\ UNCHANGED <<appFiles, batchResult, activeIdx, loading, appError, upFiles>>
  /\ UNCHANGED <<viewerVars, helperVars>>

\* The utterance is spoken to its end: utter.onend.
UtteranceEnd ==
  /\ speaking
  /\ speaking' = FALSE
  /\ isReading' = FALSE
  /\ UNCHANGED <<appFiles, batchResult, activeIdx, loading, appError,
                 upFiles, cancelled>>
  /\ UNCHANGED <<viewerVars, helperVars>>

\* The end/error event of an utterance cut short by h arrives:
\* utter.onend / utter.onerror.
CancelledUtteranceEvent(h) ==
  /\ h \in cancelled
  /\ cancelled' = cancelled \ {h}
  /\ isReading' = FALSE
  /\ UNCHANGED <<appFiles, batchResult, activeIdx, loading, appError,
                 upFiles, speaking>>
  /\ UNCHANGED <<viewerVars, helperVars>>

NextApp ==
  \/ \E picked \in AppPicks : AppFilesChange(picked)
  \/ HandleUpload
  \/ \E data \in BatchData(upFiles) : UploadResolve(data)
  \/ UploadReject
  \/ \E idx \in 0..(MaxFiles - 1) : AppSelect(idx)
  \/ ReadButton
  \/ UtteranceEnd
  \/ \E h \in cancelled : CancelledUtteranceEvent(h)

SpecApp == Init /\ [][NextApp]_vars

----------------------------------------------------------------------------
\* The views of a finished run, over every shape of response the views
\* distinguish: setResults(next) has happened, nothing is in flight.

Block(type, txt) == [type |-> type, text |-> txt]

\* Two flat pages, and a document with tables on both pages, out of order.
PTables ==
  JObj(JNull, JNull, <<Page(1, "one"), Page(2, "two")>>,
       DocModelFull("# md",
                    <<DocPage(1, "one", <<Block("paragraph", "one")>>),
                      DocPage(2, "two", <<>>)>>,
                    <<Table(2, 1, 1, <<Cell(0, 0, "t1")>>),
                      Table(1, 2, 2, <<Cell(0, 0, "a"), Cell(1, 1, "b")>>),
                      Table(2, 0, 1, <<>>)>>,
                    {}))

\* Two flat pages, and a document whose only table is on page 2.
PTablesP2 ==
  JObj(JNull, JNull, <<Page(1, "one"), Page(2, "two")>>,
       DocModelFull("", <<>>, <<Table(2, 1, 1, <<Cell(0, 0, "t1")>>)>>, {}))

\* Only the rich schema: no flat pages, a document with pages carrying
\* text, and document-level diagnostics.
PRichOnly ==
  JObj(JNull, JNull, <<>>,
       DocModelFull("# md",
                    <<DocPage(1, "rich one", <<Block("heading", "rich one")>>),
                      DocPage(2, "rich two", <<>>)>>,
                    <<>>, {"timings"}))

\* Flat pages with per-page metadata on page 1 only; page 2 is blank.
PMeta ==
  JObj(JNull, JNull,
       <<PageMeta(1, "one", "One", {"tesseract"}, {"blur"}),
         PageMeta(2, " ", "", {}, {})>>,
       JNull)

\* Flat pages whose numbers neither start at 1 nor follow one another.
PGaps == JObj(JNull, JNull, <<Page(3, "three"), Page(5, "five")>>, JNull)

ViewPayloads ==
  {PFlat, PRich, PRichNoMd, PTables, PTablesP2, PRichOnly, PMeta, PGaps}

\* What a finished run can have recorded for file f.
ViewOutcomes(f) ==
  {Outcome(f, b, NoError) : b \in ViewPayloads \cup {JNull}}
    \cup {CaughtOutcome(f, FetchFailed)}

\* The state setResults(next); setRunning(false); setViewMode(...) leaves,
\* for any non-empty batch and any outcome per file.
InitView ==
  /\ files \in {fs \in Picks : Len(fs) > 0}
  /\ runFiles = files
  /\ results \in {rs \in [1..Len(files) -> UNION {ViewOutcomes(f) : f \in FileNames}] :
                    \A i \in 1..Len(files) : rs[i] \in ViewOutcomes(files[i])}
  /\ next = results
  /\ activeIndex = 0
  /\ activePage = 1
  /\ viewMode = DefaultViewMode(results)
  /\ running = FALSE
  /\ pc = "idle"
  /\ inflight = {}
  /\ cur = NoRes
  /\ documentType = "generic"
  /\ zeroRetention = TRUE
  /\ runParams = ParamsNow
  /\ sent = FormsFor(DOMAIN runFiles, runFiles, ParamsNow)
  /\ call = NoCall
  /\ ret = NoRet
  /\ appFiles = <<>>
  /\ batchResult = JNull
  /\ activeIdx = 0
  /\ loading = FALSE
  /\ appError = JNull
  /\ isReading = FALSE
  /\ upFiles = <<>>
  /\ speaking = FALSE
  /\ cancelled = {}

NextView ==
  \/ ClickFile
  \/ PrevPage
  \/ NextPage
  \/ \E m \in ViewModes : SetViewMode(m)

SpecView == InitView /\ [][NextView]_vars

\* A tab's onClick with its `disabled` set aside: setViewMode(m) for any m.
SetViewModeAny(m) ==
  /\ viewMode' = m
  /\ UNCHANGED <<otherVars, requestVars, files, results, activeIndex,
                 activePage, running, pc, runFiles, next, inflight, cur>>

NextNav == NextView \/ \E m \in ViewModes : SetViewModeAny(m)

SpecNav == InitView /\ [][NextNav]_vars

----------------------------------------------------------------------------
\* The render helpers applied on their own, to arguments drawn from bounded
\* sets that include what no run of the component passes them.

MaxLen == 2

\* All sequences over S of length at most n.
SeqsUpTo(S, n) == UNION {[1..k -> S] : k \in 0..n}

PageNumbers == {1, 2, 5}

\* Page sequences: any numbering (gaps, repeats, out of order).
PageSeqs == SeqsUpTo({Page(n, txt) : n \in PageNumbers, txt \in {"x", "y"}},
                     MaxLen)

\* Active page numbers: zero, negative, declared, undeclared, too large.
ActivePages == -1..6

HelperIdle == UNCHANGED <<viewerVars, appVars>>

\* A helper is entered from render, and returns to it.
HelperReturn ==
  /\ call # NoCall
  /\ call' = NoCall
  /\ ret' = NoRet
  /\ HelperIdle

CallFindPage ==
  /\ call = NoCall
  /\ \E ps \in PageSeqs, n \in ActivePages :
       /\ call' = [fn |-> "findPage", pages |-> ps, n |-> n]
       /\ ret' = FindPage(ps, n)
  /\ HelperIdle

\* Declared counts and cell coordinates: negative, zero, inside, outside.
Counts == -1..2

CellSeqs == SeqsUpTo({Cell(r, c, txt) : r \in Counts, c \in Counts,
                                        txt \in {"a", "b"}}, MaxLen)

CallRenderTableGrid ==
  /\ call = NoCall
  /\ \E nRows \in Counts, nCols \in Counts, cells \in CellSeqs :
       /\ call' = [fn |-> "renderTableGrid",
                   table |-> Table(1, nRows, nCols, cells)]
       /\ ret' = RenderTableGrid(Table(1, nRows, nCols, cells))
  /\ HelperIdle

NextHelpers ==
  \/ CallFindPage
  \/ CallRenderTableGrid
  \/ HelperReturn

SpecHelpers == Init /\ [][NextHelpers]_vars

----------------------------------------------------------------------------
\* Properties

Last(sq) == sq[Len(sq)]

\* A step in which the running call pushes an outcome onto next.
Pushes == Len(next') = Len(next) + 1

\* A step in which the running call ends.
Completes == running /\ ~running'

\* C1: a batch run over n >= 1 files submits every file and stores exactly n
\* outcomes, filenames in input order; a failed file does not stop the next
\* one from being submitted; failing slots carry an error (and no response),
\* succeeding slots (HTTP success, body read) carry a response (and no error).
C1_EveryFileRecordedInOrder ==
  [][ /\ Completes =>
           /\ Len(results') = Len(runFiles)
           /\ \A k \in 1..Len(runFiles) : results'[k].filename = runFiles[k]
      /\ (Pushes /\ Len(next') < Len(runFiles)) =>
           (Len(next') + 1) \in inflight'
      /\ Pushes =>
           LET o == Last(next')
               succeeded == pc = "awaitBody" /\ cur.ok /\ ~BodyReject
           IN  IF succeeded
                 THEN Truthy(o.response) /\ o.error = NoError
                 ELSE ~Truthy(o.response) /\ o.error # NoError
    ]_vars

\* C2: at most one submission is in flight, and it is the one for the file
\* right after the outcomes already appended.
C2_OneInFlight ==
  /\ Cardinality(inflight) <= 1
  /\ \A k \in inflight : running /\ k = Len(next) + 1

C2_Witness == inflight = {2} /\ Len(next) = 1

\* C3: runOcrForAll called with an empty file list makes the result list
\* one synthetic outcome with an error and no response, and submits nothing.
C3_NoFilesGuard ==
  [][ (~running /\ Len(files) = 0 /\ results' # results) =>
        /\ Len(results') = 1
        /\ results'[1].error # NoError
        /\ ~Truthy(results'[1].response)
        /\ inflight' = {}
        /\ pc' = "idle"
        /\ ~running'
    ]_vars

C3_Witness == results = <<NoFilesOutcome>> /\ Len(files) = 0 /\ pc = "idle"

\* C4: when a batch run completes, the active file index is 0 and the active
\* page number is 1.
C4_RunResetsSelection ==
  [][ Completes => (activeIndex' = 0 /\ activePage' = 1) ]_vars

C4_Witness ==
  ~running /\ Len(results) >= 2 /\ activeIndex = 0 /\ activePage = 1

\* C5: when a batch run completes, the view mode is markdown if the first
\* outcome with a response has non-empty document.markdown, else page.
C5_DefaultViewMode ==
  [][ Completes =>
        viewMode' =
          IF \E i \in 1..Len(results') :
               /\ Truthy(results'[i].response)
               /\ \A j \in 1..(i - 1) : ~Truthy(results'[j].response)
               /\ Truthy(Markdown(Document(results'[i].response)))
            THEN "markdown" ELSE "page"
    ]_vars

C5_Witness ==
  /\ ~running
  /\ Len(results) >= 2
  /\ results[1].response = PFlat
  /\ results[2].response = PRich
  /\ viewMode = "page"

\* C6: while a run is in progress the visible list is empty, and the list
\* only ever changes to empty (a run starts) or, in one step, to the complete
\* outcome list of the run that ends.
C6_NoMixedResults ==
  [][ /\ running' => results' = <<>>
      /\ results' # results =>
           \/ running' /\ results' = <<>>
           \/ /\ Completes
              /\ results' = next'
              /\ Len(results') = Len(runFiles)
              /\ \A k \in 1..Len(runFiles) : results'[k].filename = runFiles[k]
    ]_vars

C6_Witness == running /\ results = <<>> /\ Len(next) >= 1

\* C7: every recorded outcome carries exactly one of a response and an error.
C7_ExactlyOneOfResponseOrError ==
  \A sq \in {next, results} : \A k \in 1..Len(sq) :
    Truthy(sq[k].response) # (sq[k].error # NoError)

\* The detail C8 names: the first non-empty of the structured detail field,
\* the structured message field, the plain-text body, the generic fallback.
C8_Detail(res, body, text) ==
  LET cands == << Parts(Detail(body)), Parts(Message(body)),
                  IF body.t = "str" THEN <<body.v>> ELSE <<text>>,
                  <<NumToStr(res.status), res.statusText>> >>
      nonEmpty == { i \in 1..4 : cands[i] # <<>> /\ cands[i] # <<"">> }
  IN  cands[CHOOSE i \in nonEmpty : \A j \in nonEmpty : i <= j]

\* C8: when the response being read is a non-success response, the step that
\* settles it records an outcome whose error text holds the status code, the
\* status text and the detail, and no response.
C8_HttpErrorTextFormat ==
  [][ (pc = "awaitBody" /\ ~cur.ok /\ pc' # pc) =>
        /\ Pushes
        /\ LET o == Last(next')
           IN  /\ ~Truthy(o.response)
               /\ Len(o.error) > 4
               /\ SubSeq(o.error, 2, 3) = <<NumToStr(cur.status), cur.statusText>>
               /\ \A body \in JsonBodies(cur) : JsonResolve(body) =>
                    SubSeq(o.error, 5, Len(o.error)) = C8_Detail(cur, body, "")
               /\ \A text \in Texts(cur) : TextResolve(text) =>
                    SubSeq(o.error, 5, Len(o.error)) = C8_Detail(cur, JNull, text)
    ]_vars

C10_SelectFileResetsPage ==
  [][ ClickFile => activePage' = 1 ]_vars

C10_Witness ==
  /\ activeIndex = 1
  /\ activePage = 1
  /\ results[1].response = PFlat

\* C11: for any active page number and any non-empty page sequence the
\* resolved page is the (first) entry whose page_number equals the active
\* page number if there is one, otherwise the first entry; never undefined.
C11_PageLookupNeverFails ==
  (call.fn = "findPage" /\ Len(call.pages) > 0) =>
    LET ps == call.pages
        matches == {i \in DOMAIN ps : ps[i].page_number = call.n}
    IN  /\ ret # Undefined
        /\ ret.t = "page"
        /\ matches # {} =>
             \E i \in matches : /\ ret.v = ps[i]
                                 /\ \A j \in matches : i <= j
        /\ matches = {} => ret.v = ps[1]

\* A lookup with gaps in the numbering and a page number that no entry has.
C11_Witness ==
  /\ call.fn = "findPage"
  /\ call.n = 0
  /\ Len(call.pages) = 2
  /\ call.pages[1].page_number = 5
  /\ call.pages[2].page_number = 2
  /\ ret = [t |-> "page", v |-> call.pages[1]]

\* C12: after any sequence of batch runs, file selections, next-page and
\* previous-page actions, 1 <= activePage <= pageCount, where pageCount is
\* the length of the active document's page sequence, taken as 1 when that
\* sequence is empty or absent.
C12_ActivePageInRange ==
  /\ 1 <= activePage
  /\ activePage <= (IF Len(pages) = 0 THEN 1 ELSE Len(pages))

\* The last page of a two-page document, reached by "Next".
C12_Witness ==
  /\ activePage = 2
  /\ Len(pages) = 2
  /\ ~running

\* C16: the grid builder reports Invalid whenever the declared row count
\* or the declared column count is <= 0, whatever the cells, and returns no
\* grid then.
C16_InvalidWhenNonPositive ==
  (/\ call.fn = "renderTableGrid"
   /\ (call.table.n_rows <= 0 \/ call.table.n_cols <= 0))
    => ret = InvalidTable

\* The text of the last cell of cells at (r, c), "" when there is none.
LastCellText(cells, r, c) ==
  LET at == {i \in DOMAIN cells : cells[i].row = r /\ cells[i].col = c}
  IN  IF at = {} THEN ""
      ELSE cells[CHOOSE i \in at : \A j \in at : j <= i].text

\* C17: for positive declared counts the grid has rowCount rows of colCount
\* strings; slot (r, c) holds the text of the last cell in list order at
\* (r, c), or "" when there is none; out-of-bounds cells change no slot.
C17_GridContents ==
  (/\ call.fn = "renderTableGrid"
   /\ call.table.n_rows > 0
   /\ call.table.n_cols > 0)
    => /\ ret.kind = "grid"
       /\ DOMAIN ret.grid = 1..call.table.n_rows
       /\ \A r \in 1..call.table.n_rows :
            /\ DOMAIN ret.grid[r] = 1..call.table.n_cols
            /\ \A c \in 1..call.table.n_cols :
                 ret.grid[r][c] = LastCellText(call.table.cells, r - 1, c - 1)

\* The 2x2 example: cells (0,0,"a"), (1,1,"b") give [["a",""],["","b"]].
C17_Witness ==
  /\ call.fn = "renderTableGrid"
  /\ call.table.n_rows = 2
  /\ call.table.n_cols = 2
  /\ call.table.cells = <<Cell(0, 0, "a"), Cell(1, 1, "b")>>
  /\ ret = [kind |-> "grid", grid |-> << <<"a", "">>, <<"", "b">> >>]

\* C13: for the active outcome, markdown is enabled iff document.markdown is
\* non-empty, blocks iff a document object is present, tables iff a document
\* is present with at least one table, page and raw iff a document is active.
C13_TabEnablement ==
  LET r   == ActiveItem.response
      on  == r.t = "obj"
      doc == on /\ r.document.t = "obj"
  IN  /\ TabEnabled("markdown") <=>
           (doc /\ r.document.markdown.t = "str" /\ r.document.markdown.v # "")
      /\ TabEnabled("blocks") <=> doc
      /\ TabEnabled("tables") <=> (doc /\ Len(r.document.tables) >= 1)
      /\ TabEnabled("page") <=> on
      /\ TabEnabled("raw") <=> on

\* A document with tables and no markdown is active.
C13_Witness ==
  /\ activeIndex = 1
  /\ active = PTablesP2
  /\ TabEnabled("tables")
  /\ TabEnabled("blocks")
  /\ ~TabEnabled("markdown")

\* C14: the diagnostics view mode is available for the active document iff
\* the page-level engine-usage map, the page-level diagnostics map or the
\* document-level diagnostics map is non-empty.
C14_DiagnosticsAvailability ==
  Truthy(active) =>
    (TabEnabled("diagnostics") <=>
       (engineUsage # {} \/ diagnostics # {} \/ docDiag # {}))

\* The tables of ts on page n, in order, from the i-th on.
RECURSIVE TablesOnPage(_, _, _)
TablesOnPage(ts, n, i) ==
  IF i > Len(ts) THEN <<>>
  ELSE IF ts[i].page_number = n
    THEN <<ts[i]>> \o TablesOnPage(ts, n, i + 1)
    ELSE TablesOnPage(ts, n, i + 1)

\* C15: the tables view renders exactly the document tables whose
\* page_number is the active page number, in document order; when there is
\* none it reports that there are no tables and shows no table of another
\* page.
C15_TablesFilteredByPage ==
  (viewMode = "tables" /\ Truthy(active) /\ docModel # JNull) =>
    LET onPage == TablesOnPage(docModel.tables, activePage, 1)
    IN  IF onPage = <<>>
          THEN RenderActiveView \in
                 {Notice("No tables extracted on this page."),
                  Notice("No tables extracted.")}
          ELSE /\ RenderActiveView.kind = "tables"
               /\ RenderActiveView.tables = onPage

\* The only table is on page 2 and page 1 is shown.
C15_Witness ==
  /\ viewMode = "tables"
  /\ active = PTablesP2
  /\ activePage = 1
  /\ RenderActiveView = Notice("No tables extracted on this page.")

\* C20: when a successful response carries only the rich schema (a document
\* whose pages carry text, no flat pages), the page view shows the text of
\* the document's page.
C20_RichOnlyPageText ==
  (/\ viewMode = "page"
   /\ Truthy(active)
   /\ Len(active.pages) = 0
   /\ docModel # JNull
   /\ Len(docPages) > 0)
    => RenderActiveView =
         [kind |-> "text", text |-> FindPage(docPages, activePage).v.text]

\* C19: the file sequence a batch run submits holds no two files of the
\* same name (of a repeated name only the first-seen file is kept).
C19_NoDuplicateNames ==
  \A i, j \in DOMAIN runFiles : runFiles[i] = runFiles[j] => i = j

\* C18: starting a batch run cancels any speech playback in progress, and
\* playback cannot start again until the run has completed: whenever a batch
\* run is in progress, no speech playback is in progress.
C18_NoSpeechDuringRun == loading => ~speaking

\* A run in progress that cut a playback short.
C18_Witness ==
  /\ loading
  /\ "handleUpload" \in cancelled
  /\ ~speaking

\* C21: at most one batch run is in progress: while the running flag stays
\* set, the files of the run do not change and its outcomes only grow by one
\* at the end (no second run starts), and the flag is cleared only once an
\* outcome is recorded for every file of the run.
C21_OneRunAtATime ==
  [][ /\ (running /\ running') =>
           /\ runFiles' = runFiles
           /\ \/ next' = next
              \/ Pushes /\ SubSeq(next', 1, Len(next)) = next
      /\ Completes =>
           /\ Len(next') = Len(runFiles)
           /\ results' = next'
    ]_vars

\* A run in progress while the picked files would let another one start.
C21_Witness ==
  /\ running
  /\ Len(files) # 0
  /\ files # runFiles
  /\ Len(next) >= 1

\* C22: whenever the active outcome is a failed one (error set, no
\* response), the rendered view is that outcome's error text, whatever view
\* mode and page number are selected; a failed outcome is selected from the
\* result list like any other (see the witness).
C22_FailedOutcomeShowsError ==
  (/\ activeIndex + 1 \in DOMAIN results
   /\ results[activeIndex + 1].error # NoError
   /\ ~Truthy(results[activeIndex + 1].response))
    => /\ RenderActiveView.kind = "error"
       /\ RenderActiveView.text = results[activeIndex + 1].error

\* The second file failed, was clicked in the list, and the view mode left
\* over from the first file is one the failed outcome has nothing for.
C22_Witness ==
  /\ Len(results) = 2
  /\ activeIndex = 1
  /\ results[2] = CaughtOutcome(results[2].filename, FetchFailed)
  /\ viewMode = "tables"
  /\ RenderActiveView.kind = "error"
  /\ RenderActiveView.text = ThrownErrorText(FetchFailed)

\* C23: the request of a batch run is fixed when the run starts: while the
\* run is in progress, whatever happens to the picked files, the document
\* type and the zero-retention flag, the files of the run and its parameters
\* stay what they were, and every submission carries the run's file at its
\* position and the run's parameters.
C23_RequestFixedAtStart ==
  [][ /\ (running /\ running') =>
           /\ runFiles' = runFiles
           /\ runParams' = runParams
           /\ SubSeq(sent', 1, Len(sent)) = sent
      /\ (~running /\ running') =>
           /\ runFiles' = files
           /\ runParams' = [document_type |-> documentType,
                            zero_retention |-> zeroRetention]
      /\ \A k \in DOMAIN sent' :
           sent'[k] =
             [file |-> runFiles'[k],
              document_type |-> runParams'.document_type,
              zero_retention |->
                IF runParams'.zero_retention THEN "true" ELSE "false"]
    ]_vars

\* The second submission of a run went out after the files, the document
\* type and the flag were all changed.
C23_Witness ==
  /\ running
  /\ Len(sent) = 2
  /\ files # runFiles
  /\ documentType # sent[2].document_type
  /\ BoolStr(zeroRetention) # sent[2].zero_retention

\* C24: navigation changes only its own dimension: selecting a view mode
\* (an unavailable one included) leaves the outcome list, the active file
\* index and the active page alone; selecting a file leaves the outcome list
\* and the view mode alone; next/previous page leave the outcome list, the
\* file index and the view mode alone.
C24_NavigationFrame ==
  [][ /\ results' = results
      /\ viewMode' # viewMode =>
           (activeIndex' = activeIndex /\ activePage' = activePage)
      /\ activeIndex' # activeIndex => viewMode' = viewMode
      /\ activePage' # activePage => viewMode' = viewMode
      /\ (PrevPage \/ NextPage) => activeIndex' = activeIndex
    ]_vars

\* The tables view selected for a single flat document, which has no
\* tables, from page 2.
C24_Witness ==
  /\ Len(results) = 1
  /\ active = PFlat
  /\ viewMode = "tables"
  /\ activePage = 2

C27_ViewModeAvailable ==
  Truthy(active) => TabEnabled(viewMode)

\* C28: for every active document with a non-empty page sequence, whatever
\* its page numbers, every page can be brought into view with next/previous
\* page: the pager moves activePage over 1..maxPages, so every page is the
\* one looked up for some number in that range.
C28_EveryPageViewable ==
  (Truthy(active) /\ Len(pages) > 0) =>
    \A i \in DOMAIN pages :
      \E n \in 1..maxPages : FindPage(pages, n) = [t |-> "page", v |-> pages[i]]

====
